---- MODULE Spec2Model ----
(***************************************************************************)
(* Model of the retrieval cascade of the chat backend:                     *)
(*   src/backend/main.py       the /chat/ and /chat/clear/ handlers        *)
(*   src/backend/llm_chat.py   LLMChat: rolling history, generate_response *)
(*   src/backend/fetch_web_context.py   format_web_context                 *)
(*                                                                         *)
(* The handlers are coroutines on one event loop: a handler runs           *)
(* atomically between awaits.  /chat/ has one await (main.py:125, the      *)
(* aggregator call), so a request is one step (Chat) when it never reaches *)
(* the WEB stage and two steps (Chat up to the await, ChatResume after it) *)
(* when it does.  /chat/clear/ has no await.                               *)
(*                                                                         *)
(* Scores are in hundredths (0.3 is 30).  Texts are sequences of tokens.   *)
(* A call made by the handler either returns or raises; "raise" is the     *)
(* outcome in which an exception reaches the handler's own try blocks      *)
(* (main.py:142 and main.py:158).                                          *)
(***************************************************************************)
EXTENDS Integers, Sequences, FiniteSets, TLC

VARIABLES
    session_histories,  \* main.py:19   session id -> LLMChat object (NoObj: absent)
    heap,               \* the LLMChat objects: [history, history_window]
    nObjs,              \* number of LLMChat objects constructed so far
    nReqs,              \* number of /chat/ requests received so far
    waiting,            \* requests suspended at the await of main.py:125
    result,             \* the /chat/ response the last step returned (NoResult: none)
    clear_result,       \* the /chat/clear/ response the last step returned (NoClear: none)
    nClears,            \* number of /chat/clear/ requests received so far
    log,                \* SpecHistory: every turn handed to _update_history, in order
    search,             \* SpecSearch: one call of combined_web_search and its two tasks
    dedup               \* SpecDedupe: a list of results and what _deduplicate_results makes of it

vars ==
    <<session_histories, heap, nObjs, nReqs, waiting, result, clear_result, nClears, log,
      search, dedup>>

---------------------------------------------------------------------------
(* Bounds of the model *)

MaxRequests == 2
MaxClears == 2
MaxExtra == 2

(* Program constants *)

HistoryWindow == 5
RagThreshold == 30
RagLimit == 3
WebContextLimit == 3

---------------------------------------------------------------------------
(* Values *)

NoObj == 0
ObjIds == 1..MaxRequests
NoneId == ""
RequestSessionIds == {NoneId, "default", "s1"}
SessionIds == {"default", "s1"}
ChatModes == {"rag", "web", "deep", "bogus"}

Tok(t, a, b, c, n) == [t |-> t, a |-> a, b |-> b, c |-> c, n |-> n]
Marker == Tok("Final Response:", "", "", "", 0)

Min(a, b) == IF a < b THEN a ELSE b

(* Python's s[-k:] : the last k elements, and the whole list when k = 0 or
   k >= len(s) *)
PySuffix(s, k) ==
    IF k = 0 \/ k >= Len(s) THEN s ELSE SubSeq(s, Len(s) - k + 1, Len(s))

(* Python's s[:k] for k >= 0 *)
PyPrefix(s, k) == SubSeq(s, 1, Min(k, Len(s)))

---------------------------------------------------------------------------
(* LLMChat, src/backend/llm_chat.py *)

(* LLMChat.__init__ : an empty history and the window *)
LLMChat(history_window) == [history |-> <<>>, history_window |-> history_window]

(* mutant: the window keeps the oldest turns and drops the newest *)
update_history_keeps_oldest(self, role, content) ==
    LET appended == Append(self.history, [role |-> role, content |-> content])
    IN  [self EXCEPT !.history = PyPrefix(appended, self.history_window * 2)]

(* mutant: the cap is odd, one turn more than twice the window *)
update_history_odd_cap(self, role, content) ==
    LET appended == Append(self.history, [role |-> role, content |-> content])
    IN  IF Len(appended) > self.history_window * 2 + 1
        THEN [self EXCEPT !.history = PySuffix(appended, self.history_window * 2 + 1)]
        ELSE [self EXCEPT !.history = appended]

(* LLMChat._update_history *)
update_history(self, role, content) ==
    LET appended == Append(self.history, [role |-> role, content |-> content])
    IN  IF Len(appended) > self.history_window * 2
        THEN [self EXCEPT !.history = PySuffix(appended, self.history_window * 2)]
        ELSE [self EXCEPT !.history = appended]

(* What the chain's invoke can do: return a text or raise.  A text with a
   "Final Response:" marker in it is drawn for the deep chain, whose caller
   is the one that looks for the marker (main.py:155). *)
EngineOutcomes(chat_mode) ==
    IF chat_mode = "deep" THEN {"answer", "marked_answer", "raise"}
    ELSE {"answer", "raise"}

EngineText(outcome, chat_mode, n) ==
    IF outcome = "marked_answer"
    THEN <<Tok("thinking", chat_mode, "", "", n), Marker, Tok("answer", chat_mode, "", "", n)>>
    ELSE <<Tok("answer", chat_mode, "", "", n)>>

UserText(n) == <<Tok("message", "", "", "", n)>>
(* f"Error generating response: {e}", llm_chat.py:153 : the same text whatever
   the mode *)
GenErrorText(chat_mode, n) == <<Tok("Error generating response", "", "", "", n)>>

(* mutant: the user turn is appended before the engine is invoked, so it
   stays when the engine fails *)
generate_response_user_first(self, n, chat_mode, outcome) ==
    LET withUser == update_history(self, "user", UserText(n))
    IN  IF outcome = "raise"
        THEN [self |-> withUser, text |-> GenErrorText(chat_mode, n)]
        ELSE [self |-> update_history(withUser, "assistant", EngineText(outcome, chat_mode, n)),
              text |-> EngineText(outcome, chat_mode, n)]

(* LLMChat.generate_response : [self, text].  The message of request n is
   UserText(n).  When invoke raises, the except branch returns the error
   text and the history is not touched. *)
generate_response(self, n, chat_mode, outcome) ==
    IF outcome = "raise"
    THEN [self |-> self, text |-> GenErrorText(chat_mode, n)]
    ELSE LET output == EngineText(outcome, chat_mode, n)
             withUser == update_history(self, "user", UserText(n))
         IN  [self |-> update_history(withUser, "assistant", output),
              text |-> output]

---------------------------------------------------------------------------
(* format_web_context, src/backend/fetch_web_context.py *)

(* source.upper().replace('_', ' ') *)
SourceDisplay(source) ==
    CASE source = "wikipedia" -> "WIKIPEDIA"
      [] source = "wikipedia_disambiguation" -> "WIKIPEDIA DISAMBIGUATION"
      [] source = "duckduckgo_web_detailed" -> "DUCKDUCKGO WEB DETAILED"
      [] source = "duckduckgo_web" -> "DUCKDUCKGO WEB"
      [] source = "duckduckgo_news" -> "DUCKDUCKGO NEWS"
      [] source = "duckduckgo_fallback" -> "DUCKDUCKGO FALLBACK"
      [] OTHER -> "WEB"

(* the lines of entry i: the numbered title line, the URL line when the url
   is not empty, and an empty line *)
ContextLines(r, i) ==
    <<Tok("title_line", SourceDisplay(r.source), r.title, "", i)>>
    \o (IF r.url # "" THEN <<Tok("url_line", "", "", r.url, i)>> ELSE <<>>)
    \o <<Tok("empty_line", "", "", "", i)>>

RECURSIVE ContextFrom(_, _)
ContextFrom(rs, i) ==
    IF i > Len(rs) THEN <<>> ELSE ContextLines(rs[i], i) \o ContextFrom(rs, i + 1)

format_web_context(web_results) ==
    IF web_results = <<>> THEN <<>>
    ELSE ContextFrom(PyPrefix(web_results, WebContextLimit), 1)

---------------------------------------------------------------------------
(* What the collaborators called by the handler can hand back *)

(* vector_store.search_similar(message, limit=3): at most RagLimit hits,
   each with a score (in hundredths), or an exception *)
Hit(score) == [score |-> score]
HitLists ==
    {<<>>, <<Hit(30)>>, <<Hit(31)>>, <<Hit(10), Hit(30), Hit(10)>>,
     <<Hit(10), Hit(31), Hit(10)>>}
VsOutcomes ==
    {[raise |-> TRUE, hits |-> <<>>]}
    \cup {[raise |-> FALSE, hits |-> PyPrefix(h, RagLimit)] : h \in HitLists}

(* web_search_manager.combined_web_search(message): a list of results, or an
   exception *)
Titles == <<"t1", "t2", "t3", "t4", "t5", "t6">>
Urls == <<"u1", "", "u3", "u4", "u5", "u6">>
WebResult(i) ==
    [title |-> Titles[i], url |-> Urls[i],
     source |-> IF i = 1 THEN "wikipedia" ELSE "duckduckgo_web", score |-> 90]
WebCounts == {0, 4}
WebOutcomes ==
    {[raise |-> TRUE, results |-> <<>>]}
    \cup {[raise |-> FALSE, results |-> [i \in 1..k |-> WebResult(i)]] : k \in WebCounts}

(* llm_chat.generate_response(...) as the handler sees it: what the engine
   did inside it, or "escape": an exception that leaves generate_response *)
GenOutcomes(chat_mode) == EngineOutcomes(chat_mode) \cup {"escape"}

---------------------------------------------------------------------------
(* WebSearchManager, src/backend/web_search_manager.py.

   A result is the dict the adapters build: title, content, url, source and
   score (in hundredths).  Optional[Dict] and List[Dict] are both sequences
   of results here: None and [] are the empty sequence. *)

Result(title, content, url, source, score) ==
    [title |-> title, content |-> content, url |-> url, source |-> source,
     score |-> score]

(* d.get(key, '') for the keys the code reads with a default *)
GetUrl(d) == IF "url" \in DOMAIN d THEN d.url ELSE ""
GetHref(d) == IF "href" \in DOMAIN d THEN d.href ELSE ""

(* Python's s[1:4] *)
PySlice1To4(s) == SubSeq(s, 2, Min(4, Len(s)))

(* mutant: entries without a url are deduplicated against each other too *)
DedupeStepEmptyUrlOnce(acc, r) ==
    LET url == GetUrl(r)
    IN  IF url \notin acc.seen_urls
        THEN [seen_urls |-> acc.seen_urls \cup {url},
              unique_results |-> Append(acc.unique_results, r)]
        ELSE acc

(* mutant: a dropped duplicate takes its url out of seen_urls again *)
DedupeStepForgets(acc, r) ==
    LET url == GetUrl(r)
    IN  IF url # "" /\ url \notin acc.seen_urls
        THEN [seen_urls |-> acc.seen_urls \cup {url},
              unique_results |-> Append(acc.unique_results, r)]
        ELSE IF url = ""
        THEN [acc EXCEPT !.unique_results = Append(@, r)]
        ELSE [acc EXCEPT !.seen_urls = @ \ {url}]

(* the body of the loop of _deduplicate_results, lines 286-292 *)
DedupeStep(acc, r) ==
    LET url == GetUrl(r)
    IN  IF url # "" /\ url \notin acc.seen_urls
        THEN [seen_urls |-> acc.seen_urls \cup {url},
              unique_results |-> Append(acc.unique_results, r)]
        ELSE IF url = ""
        THEN [acc EXCEPT !.unique_results = Append(@, r)]
        ELSE acc

RECURSIVE DedupeFrom(_, _, _)
DedupeFrom(results, i, acc) ==
    IF i > Len(results) THEN acc.unique_results
    ELSE DedupeFrom(results, i + 1, DedupeStep(acc, results[i]))

(* WebSearchManager._deduplicate_results *)
deduplicate_results(results) ==
    DedupeFrom(results, 1, [seen_urls |-> {}, unique_results |-> <<>>])

(* search_wikipedia.  wikipedia.search(query, results=3) returns titles,
   returns none, raises, or never returns (the library's HTTP call has no
   timeout); wikipedia.page(title) returns the page, or raises
   DisambiguationError (with its options), PageError or something else. *)
WikiSearchOutcomes == {"titles", "no_titles", "raise", "blocks"}
WikiPageOutcomes == {"page", "disambiguation", "page_error", "raise"}
OptionCounts == {2, 7}
Options(k) == [i \in 1..k |-> Tok("option", "", "", "", i)]

WikipediaPage ==
    Result("page.title", <<Tok("page.summary", "", "", "", 0)>>, "u_wiki", "wikipedia", 90)

(* mutant: every option is listed *)
DisambiguationResultAllOptions(options) ==
    Result("Disambiguation: query",
           <<Tok("Multiple options found:", "", "", "", 0)>> \o options,
           "u_disambiguation", "wikipedia_disambiguation", 70)

(* lines 68-75 *)
DisambiguationResult(options) ==
    Result("Disambiguation: query",
           <<Tok("Multiple options found:", "", "", "", 0)>> \o PyPrefix(options, 5),
           "u_disambiguation", "wikipedia_disambiguation", 70)

(* lines 61-81 : what search_wikipedia returns once wikipedia.page has
   returned or raised; every exception is caught *)
WikipediaReturn(page_outcome, options) ==
    CASE page_outcome = "page" -> <<WikipediaPage>>
      [] page_outcome = "disambiguation" -> <<DisambiguationResult(options)>>
      [] page_outcome = "page_error" -> <<>>
      [] OTHER -> <<>>

(* fetch_webpage_content(url): the text of the page's paragraphs (empty when
   the page has none), or the text built by the else branch of line 45 or by
   the except branch of line 47.  aiohttp raises on an empty url.  The
   paragraphs of a page make a text of at most 2000 characters
   ("paragraphs") or a longer one ("long_paragraphs"). *)
FetchOutcomes(url) ==
    IF url = "" THEN {"exception"}
    ELSE {"paragraphs", "long_paragraphs", "no_paragraphs", "status", "exception"}

(* line 42 : the length above which the text is cut, and len("...") *)
ContentCap == 2000
EllipsisLen == 3

(* the number of characters of the joined paragraphs: the longest text that
   is not cut, and the shortest one that is *)
PageLength(outcome) == IF outcome = "long_paragraphs" THEN ContentCap + 1 ELSE ContentCap

(* lines 42-43, on lengths: len(content[:2000] + "...") *)
CapContent(length) == IF length > ContentCap THEN ContentCap + EllipsisLen ELSE length

(* the last field of the token of a page's text is the number of characters
   of the returned text *)
fetch_webpage_content(url, outcome) ==
    CASE outcome \in {"paragraphs", "long_paragraphs"} ->
            <<Tok("paragraphs", "", "", url, CapContent(PageLength(outcome)))>>
      [] outcome = "no_paragraphs" -> <<>>
      [] outcome = "status" -> <<Tok("Could not fetch content (Status: ...)", "", "", url, 0)>>
      [] OTHER -> <<Tok("Error fetching content: ...", "", "", url, 0)>>

(* The hits of DDGS().text(query, max_results=5) carry title, href and body;
   those of DDGS().news(query, max_results=3) carry title, url and body. *)
TextTitles == <<"text1", "text2", "text3", "text4", "text5">>
TextHrefs == <<"u_text1", "u_wiki", "u_text3", "u_text4", "u_text5">>
NewsTitles == <<"news1", "news2", "news3">>
NewsUrls == <<"u_news1", "u_news2", "u_text1">>
Snippet(kind, i) == <<Tok("body", kind, "", "", i)>>
TextHit(i) == [title |-> TextTitles[i], href |-> TextHrefs[i], body |-> Snippet("text", i)]
NewsHit(i) == [title |-> NewsTitles[i], url |-> NewsUrls[i], body |-> Snippet("news", i)]
TextCounts == {0, 2, 5}
NewsCounts == {0, 1, 3}
TextOutcomes ==
    {[raise |-> TRUE, hits |-> <<>>]}
    \cup {[raise |-> FALSE, hits |-> [i \in 1..k |-> TextHit(i)]] : k \in TextCounts}
NewsOutcomes ==
    {[raise |-> TRUE, hits |-> <<>>]}
    \cup {[raise |-> FALSE, hits |-> [i \in 1..k |-> NewsHit(i)]] : k \in NewsCounts}

(* lines 185-191 and 204-210 : the entry of a sub-query's top hit *)
DetailedResult(top_result, detailed_content) ==
    Result(top_result.title,
           IF detailed_content # <<>> THEN detailed_content ELSE top_result.body,
           GetHref(top_result), "duckduckgo_web_detailed", 90)

(* lines 182-199 *)
TextResults(text_results, detailed_content) ==
    IF text_results = <<>> THEN <<>>
    ELSE <<DetailedResult(text_results[1], detailed_content)>>
         \o [i \in 1..Len(PySlice1To4(text_results)) |->
                Result(PySlice1To4(text_results)[i].title,
                       PySlice1To4(text_results)[i].body,
                       GetHref(PySlice1To4(text_results)[i]), "duckduckgo_web", 70)]

(* lines 201-218 *)
NewsResults(news_results, detailed_content) ==
    IF news_results = <<>> THEN <<>>
    ELSE <<DetailedResult(news_results[1], detailed_content)>>
         \o [i \in 1..Len(PySlice1To4(news_results)) |->
                Result(PySlice1To4(news_results)[i].title,
                       PySlice1To4(news_results)[i].body,
                       GetUrl(PySlice1To4(news_results)[i]), "duckduckgo_news", 70)]

(* fallback_duckduckgo_search : the placeholder, or nothing when the request
   of line 238 raises.  No line of the module that runs calls it: line 225
   calls self.fallback_manual_search, which is not defined. *)
FallbackOutcomes == {"response", "exception"}
fallback_duckduckgo_search(outcome) ==
    IF outcome = "exception" THEN <<>>
    ELSE <<Result("Search: query", <<Tok("Web search results for", "", "", "", 0)>>,
                  "u_duckduckgo_search", "duckduckgo_fallback", 50)>>

(* What a settled task hands to gather: the value it returned, or the
   exception it raised. *)
Returns(value) == [raised |-> FALSE, value |-> value]
Raises == [raised |-> TRUE, value |-> <<>>]

(* mutant: gather without return_exceptions, so that a task's exception is
   raised in combined_web_search and its except branch returns [] *)
CombinedResultsFailFast(wikipedia_result, duckduckgo_results) ==
    IF wikipedia_result.raised \/ duckduckgo_results.raised THEN <<>>
    ELSE deduplicate_results(wikipedia_result.value \o duckduckgo_results.value)

(* mutant: the results are concatenated in the order in which the tasks
   settled *)
CombinedResultsInCompletionOrder(wikipedia_result, duckduckgo_results) ==
    IF search.order[1] = "duckduckgo"
    THEN deduplicate_results(duckduckgo_results.value \o wikipedia_result.value)
    ELSE deduplicate_results(wikipedia_result.value \o duckduckgo_results.value)

(* combined_web_search, lines 265-274 *)
CombinedResults(wikipedia_result, duckduckgo_results) ==
    LET fromWikipedia ==
            IF wikipedia_result.value # <<>> /\ ~wikipedia_result.raised
            THEN wikipedia_result.value ELSE <<>>
        fromDuckduckgo ==
            IF duckduckgo_results.value # <<>> /\ ~duckduckgo_results.raised
            THEN duckduckgo_results.value ELSE <<>>
    IN  deduplicate_results(fromWikipedia \o fromDuckduckgo)

(* The state of one call of combined_web_search: where the call is, its two
   tasks, and, which no code reads, the order in which the tasks settled.
   A task keeps what its calls handed it and, once settled, what it hands to
   gather; fallback is the outcome of the task's call of
   fallback_duckduckgo_search ("": not called).  The last fields of a task
   count, for no code to read, how often the task was created and how often
   it called the library (wikipedia.search, wikipedia.page, ddgs.text,
   ddgs.news) and fetch_webpage_content. *)
NoOutcome == [raise |-> FALSE, hits |-> <<>>]
NoSearch ==
    [pc |-> "idle",
     wikipedia_task |-> [pc |-> "none", search |-> "", page |-> "", options |-> <<>>,
                         settled |-> Returns(<<>>),
                         created |-> 0, searches |-> 0, pages |-> 0],
     duckduckgo_task |-> [pc |-> "none", text |-> NoOutcome, text_fetch |-> "",
                          news |-> NoOutcome, news_fetch |-> "", results |-> <<>>,
                          fallback |-> "", settled |-> Returns(<<>>),
                          created |-> 0, texts |-> 0, newses |-> 0, fetches |-> 0],
     order |-> <<>>,
     output |-> <<>>]

(* A list handed to _deduplicate_results, its result, and the result of
   handing that result to it again. *)
NoDedup == [pc |-> "none", results |-> <<>>, unique_results |-> <<>>, again |-> <<>>]

---------------------------------------------------------------------------
(* The /chat/ handler, src/backend/main.py:84-181.

   A frame is the handler's local variables, plus what happened to the
   request so far (the fields after "exc"), which no code reads:
     trace      the stages entered, in order
     vsCalls, aggCalls, genCalls   calls made to the three collaborators
     genReturns how many engine invocations returned a text
     genText    the text the last generate_response call returned
     raisedIn   the stage whose exception reached main.py:158 ("" if none)
     caughtInWeb  whether main.py:142 caught an exception
     hits       what the vector index returned
     webCount   how many results the aggregator returned
     created    whether this request created its session
     entryLen   the length of its session object's history when it arrived
   given is request.session_id as the request carries it. *)

ValidModes == {"rag", "web", "deep"}

(* mutant: the mode is not coerced *)
NewFrameUncoerced(n, given, session_id, obj, chat_mode, created, entryLen) ==
    [n |-> n, given |-> given, session_id |-> session_id, llm_chat |-> obj,
     sources |-> <<>>, web_context |-> <<>>, reasoning |-> <<>>,
     fallback_used |-> FALSE, original_mode |-> chat_mode,
     chat_mode |-> chat_mode, response |-> <<>>, mode_used |-> chat_mode,
     exc |-> "",
     trace |-> <<>>, vsCalls |-> 0, aggCalls |-> 0, genCalls |-> 0,
     genReturns |-> 0, genText |-> <<>>, raisedIn |-> "", caughtInWeb |-> FALSE,
     hits |-> <<>>, webCount |-> 0,
     created |-> created, entryLen |-> entryLen]

(* main.py:88-104 *)
NewFrame(n, given, session_id, obj, chat_mode, created, entryLen) ==
    LET coerced == IF chat_mode \notin ValidModes THEN "rag" ELSE chat_mode
    IN  [n |-> n, given |-> given, session_id |-> session_id, llm_chat |-> obj,
         sources |-> <<>>, web_context |-> <<>>, reasoning |-> <<>>,
         fallback_used |-> FALSE, original_mode |-> chat_mode,
         chat_mode |-> coerced, response |-> <<>>, mode_used |-> coerced,
         exc |-> "",
         trace |-> <<>>, vsCalls |-> 0, aggCalls |-> 0, genCalls |-> 0,
         genReturns |-> 0, genText |-> <<>>, raisedIn |-> "", caughtInWeb |-> FALSE,
         hits |-> <<>>, webCount |-> 0,
         created |-> created, entryLen |-> entryLen]

(* A configuration: the frame and the LLMChat object it holds. *)
Cfg(f, self) == [f |-> f, self |-> self]

(* the call llm_chat.generate_response(message, context, mode) made by a
   stage; on "escape" the exception goes to the stage's caller *)
CallGenerate(c, chat_mode, gen) ==
    LET called == [c.f EXCEPT !.genCalls = @ + 1]
    IN  IF gen = "escape"
        THEN Cfg([called EXCEPT !.exc = chat_mode], c.self)
        ELSE LET g == generate_response(c.self, c.f.n, chat_mode, gen)
             IN  Cfg([called EXCEPT !.response = g.text, !.genText = g.text,
                                    !.genReturns = IF gen = "raise" THEN @ ELSE @ + 1],
                     g.self)

(* mutant: the threshold is met by a score equal to it *)
AnyRelevantAtLeast(sources) == \E i \in 1..Len(sources) : sources[i].score >= 30

(* any(source.get('score', 0) > 0.3 for source in sources), main.py:112 *)
AnyRelevant(sources) == \E i \in 1..Len(sources) : sources[i].score > RagThreshold

(* main.py:110-118 *)
RagStage(c, vs, gen) ==
    IF c.f.chat_mode # "rag" THEN c
    ELSE LET entered == [c.f EXCEPT !.trace = Append(@, "rag"), !.vsCalls = @ + 1]
         IN  IF vs.raise
             THEN Cfg([entered EXCEPT !.exc = "rag"], c.self)
             ELSE LET found == [entered EXCEPT !.sources = vs.hits, !.hits = vs.hits]
                  IN  IF found.sources # <<>> /\ AnyRelevant(found.sources)
                      THEN CallGenerate(Cfg(found, c.self), "rag", gen)
                      ELSE Cfg([found EXCEPT !.fallback_used = TRUE,
                                             !.mode_used = "web"], c.self)

(* mutant: the stage runs only when web was requested *)
WebStageDueWhenRequested(f) == f.exc = "" /\ f.chat_mode = "web"

(* mutant: the WEB stage runs for every request that raised nothing *)
WebStageDueAlways(f) == f.exc = ""

(* the condition of main.py:123 *)
WebStageDue(f) ==
    f.exc = "" /\ (f.chat_mode = "web" \/ (f.fallback_used /\ f.mode_used = "web"))

(* main.py:123-125 : the stage is entered and the aggregator is called *)
EnterWeb(f) == [f EXCEPT !.trace = Append(@, "web"), !.aggCalls = @ + 1]

(* mutant: the stage hands over to DEEP without setting fallback_used *)
FallBackToDeepSilently(f) == [f EXCEPT !.mode_used = "deep"]

(* main.py:137-140 *)
FallBackToDeep(f) == [f EXCEPT !.fallback_used = TRUE, !.mode_used = "deep"]

(* mutant: the WEB stage has no except branch of its own *)
CatchInWebMissing(f) == [f EXCEPT !.exc = "web"]

(* main.py:142-145 *)
CatchInWeb(f) == FallBackToDeep([f EXCEPT !.exc = "", !.caughtInWeb = TRUE])

(* main.py:124-145, from the point where the await of main.py:125 returns
   or raises.  Every exception of the stage is caught by main.py:142. *)
WebStage(c, web, gen) ==
    IF web.raise
    THEN Cfg(CatchInWeb(c.f), c.self)
    ELSE LET got == [c.f EXCEPT !.webCount = Len(web.results)]
         IN  IF web.results # <<>>
             THEN LET formatted ==
                          [got EXCEPT !.web_context = format_web_context(web.results)]
                      g == CallGenerate(Cfg(formatted, c.self), "web", gen)
                  IN  IF g.f.exc # "" THEN Cfg(CatchInWeb(g.f), g.self) ELSE g
             ELSE Cfg(FallBackToDeep(got), c.self)

(* mutant: the DEEP stage runs after every stage that raised nothing *)
DeepStageDueAlways(f) == f.exc = ""

(* the condition of main.py:150 *)
DeepStageDue(f) ==
    f.exc = "" /\ (f.chat_mode = "deep" \/ (f.fallback_used /\ f.mode_used = "deep"))

(* text.split("Final Response:")[-1] if "Final Response:" in text else text *)
AfterLastMarker(text) ==
    IF \E i \in 1..Len(text) : text[i] = Marker
    THEN LET last == CHOOSE i \in 1..Len(text) :
                        text[i] = Marker /\ \A j \in (i + 1)..Len(text) : text[j] # Marker
         IN  SubSeq(text, last + 1, Len(text))
    ELSE text

ReasoningText == <<Tok("Engaging in comprehensive analysis", "", "", "", 0)>>
(* the note of main.py:157 names no mode; its reason is the knowledge base *)
KnowledgeBaseNote ==
    Tok("Note: I couldn't find ..., so I'm providing a general analysis", "", "",
        "knowledge base", 0)

(* main.py:150-157 *)
DeepStage(c, gen) ==
    LET entered == [c.f EXCEPT !.trace = Append(@, "deep"), !.reasoning = ReasoningText]
        g == CallGenerate(Cfg(entered, c.self), "deep", gen)
    IN  IF g.f.exc # "" THEN g
        ELSE LET final == AfterLastMarker(g.f.genText)
             IN  Cfg([g.f EXCEPT !.response =
                         IF g.f.fallback_used /\ g.f.original_mode # "deep"
                         THEN <<KnowledgeBaseNote>> \o final ELSE final],
                     g.self)

(* mutant: the except branch leaves mode_used as it was *)
HandleCascadeErrorKeepsMode(f) ==
    IF f.exc # ""
    THEN [f EXCEPT !.response = <<Tok("I apologize, but I encountered an issue", f.exc, "", "", 0)>>,
                   !.raisedIn = f.exc, !.exc = ""]
    ELSE f

(* main.py:158-160 : the except branch of the cascade's try *)
ApologyText(stage) == <<Tok("I apologize, but I encountered an issue", stage, "", "", 0)>>
HandleCascadeError(f) ==
    IF f.exc # ""
    THEN [f EXCEPT !.response = ApologyText(f.exc), !.mode_used = "error",
                   !.raisedIn = f.exc, !.exc = ""]
    ELSE f

(* str.upper() on the mode names *)
Upper(mode) ==
    CASE mode = "rag" -> "RAG" [] mode = "web" -> "WEB" [] mode = "deep" -> "DEEP"
      [] mode = "error" -> "ERROR" [] mode = "bogus" -> "BOGUS" [] OTHER -> mode

(* main.py:171-175 : the note names the mode used and the original mode, and
   gives a reason only for the original modes rag and web *)
FallbackMessage(mode_used, original_mode) ==
    Tok("Note: I used ... mode instead of ... because", Upper(mode_used), Upper(original_mode),
        CASE original_mode = "rag" -> "knowledge base"
          [] original_mode = "web" -> "web results"
          [] OTHER -> "",
        0)

(* mutant: the three fields are returned whatever the mode used *)
ChatResponseUnfiltered(f) ==
    [response |-> f.response, sources |-> f.sources, web_context |-> f.web_context,
     reasoning |-> f.reasoning, mode_used |-> f.mode_used,
     fallback_used |-> f.fallback_used, original_mode |-> f.original_mode]

(* main.py:161-169 *)
ChatResponse(f) ==
    [response |-> f.response,
     sources |-> IF f.mode_used = "rag" THEN f.sources ELSE <<>>,
     web_context |-> IF f.mode_used = "web" THEN f.web_context ELSE <<>>,
     reasoning |-> IF f.mode_used = "deep" THEN f.reasoning ELSE <<>>,
     mode_used |-> f.mode_used,
     fallback_used |-> f.fallback_used,
     original_mode |-> f.original_mode]

(* main.py:170-176 *)
WithFallbackMessage(f, r) ==
    IF f.fallback_used /\ f.original_mode # f.mode_used
    THEN [r EXCEPT !.response = @ \o <<FallbackMessage(f.mode_used, f.original_mode)>>]
    ELSE r

(* main.py:158-178 : what the handler returns (HTTP 200) for a frame whose
   stages are over *)
Returned(f) ==
    LET handled == HandleCascadeError(f)
    IN  [status |-> 200, body |-> WithFallbackMessage(handled, ChatResponse(handled)),
         req |-> handled]

(* main.py:179-181 : HTTPException(status_code=500) *)
Http500(f) == [status |-> 500, body |-> ChatResponse(f), req |-> f]

(* main.py:147-157 : the DEEP stage, when its condition holds *)
DeepIfDue(c, gen) == IF DeepStageDue(c.f) THEN DeepStage(c, gen) ELSE c

---------------------------------------------------------------------------
(* State *)

NoFrame == NewFrame(0, "", "", NoObj, "rag", FALSE, 0)
NoResult == [status |-> 0, body |-> ChatResponse(NoFrame), req |-> NoFrame]
NoClear == [n |-> 0, session_id |-> "", success |-> FALSE]

Init ==
    /\ session_histories = [s \in SessionIds |-> NoObj]
    /\ heap = [o \in ObjIds |-> LLMChat(HistoryWindow)]
    /\ nObjs = 0
    /\ nReqs = 0
    /\ waiting = {}
    /\ result = NoResult
    /\ clear_result = NoClear
    /\ nClears = 0
    /\ log = <<>>
    /\ search = NoSearch
    /\ dedup = NoDedup

(* request.session_id or "default", main.py:88 *)
SessionIdOf(given) == IF given = NoneId THEN "default" ELSE given

(* mutant: the membership test of main.py:89 is dropped, and every message
   constructs a session object *)
SessionAbsentAlways(session_id) == TRUE

(* session_id not in session_histories, main.py:89 *)
SessionAbsent(session_id) == session_histories[session_id] = NoObj

(* POST /chat/ when LLMChat(history_window=5) of main.py:90 raises (the
   ValueError of llm_chat.py:15-16): the exception is outside the cascade's
   try, and main.py:179-181 answers 500. *)
ChatConstructorFails(given, chat_mode) ==
    LET session_id == SessionIdOf(given)
    IN  /\ nReqs < MaxRequests
        /\ SessionAbsent(session_id)
        /\ nReqs' = nReqs + 1
        /\ result' = Http500(NewFrame(nReqs + 1, given, session_id, NoObj, chat_mode,
                                      FALSE, 0))
        /\ clear_result' = NoClear
        /\ UNCHANGED <<session_histories, heap, nObjs, waiting, nClears, log, search, dedup>>

(* The outcomes drawn for a call: those of the call when the request makes
   it, and a single placeholder when it does not. *)
VsDrawn(f) == IF f.chat_mode = "rag" THEN VsOutcomes ELSE {[raise |-> FALSE, hits |-> <<>>]}
RagGenDrawn(f, vs) ==
    IF f.chat_mode = "rag" /\ ~vs.raise /\ AnyRelevant(vs.hits)
    THEN GenOutcomes("rag") ELSE {"answer"}
WebGenDrawn(web) == IF web.results # <<>> THEN GenOutcomes("web") ELSE {"answer"}
DeepGenDrawn(f) == IF DeepStageDue(f) THEN GenOutcomes("deep") ELSE {"answer"}

(* POST /chat/ from its arrival to its first await or, when the WEB stage is
   not due, to its return: main.py:88-118 and then either the suspension at
   main.py:125 or main.py:147-178. *)
Chat(given, chat_mode) ==
    LET session_id == SessionIdOf(given)
        absent == SessionAbsent(session_id)
        obj == IF absent THEN nObjs + 1 ELSE session_histories[session_id]
        self == IF absent THEN LLMChat(HistoryWindow) ELSE heap[obj]
        frame == NewFrame(nReqs + 1, given, session_id, obj, chat_mode, absent,
                         Len(self.history))
    IN  /\ nReqs < MaxRequests
        /\ nReqs' = nReqs + 1
        /\ nObjs' = IF absent THEN nObjs + 1 ELSE nObjs
        /\ session_histories' = [session_histories EXCEPT ![session_id] = obj]
        /\ \E vs \in VsDrawn(frame) : \E genRag \in RagGenDrawn(frame, vs) :
           \E rag \in {RagStage(Cfg(frame, self), vs, genRag)} :
              IF WebStageDue(rag.f)
              THEN /\ waiting' = waiting \cup {EnterWeb(rag.f)}
                   /\ heap' = [heap EXCEPT ![obj] = rag.self]
                   /\ result' = NoResult
              ELSE \E genDeep \in DeepGenDrawn(rag.f) :
                   \E done \in {DeepIfDue(rag, genDeep)} :
                      /\ result' = Returned(done.f)
                      /\ heap' = [heap EXCEPT ![obj] = done.self]
                      /\ UNCHANGED waiting
        /\ clear_result' = NoClear
        /\ UNCHANGED <<nClears, log, search, dedup>>

(* mutant: after the await the handler looks the session up again *)
HeldObjectLookedUpAgain(f) ==
    IF session_histories[f.session_id] # NoObj THEN session_histories[f.session_id]
    ELSE f.llm_chat

(* the local llm_chat of main.py:91 : the object the request got when it
   arrived, whatever the session map holds now *)
HeldObject(f) == f.llm_chat

(* mutant: the request works on the turns it found when it arrived, and
   stores them back with its own *)
HeldSessionSnapshot(f) == [heap[HeldObject(f)] EXCEPT !.history = SubSeq(@, 1, f.entryLen)]

(* the object behind the local llm_chat: shared with every request that
   holds it, not a copy *)
HeldSession(f) == heap[HeldObject(f)]

(* main.py:125-178 for request f, when its await hands it web *)
ResumeWith(f, web) ==
    /\ f \in waiting
    /\ waiting' = waiting \ {f}
    /\ \E genWeb \in WebGenDrawn(web) :
       \E stage \in {WebStage(Cfg(f, HeldSession(f)), web, genWeb)} :
       \E genDeep \in DeepGenDrawn(stage.f) :
       \E done \in {DeepIfDue(stage, genDeep)} :
          /\ heap' = [heap EXCEPT ![HeldObject(f)] = done.self]
          /\ result' = Returned(done.f)
    /\ clear_result' = NoClear

(* POST /chat/ from the return of its await to its return:
   main.py:125-178. *)
ChatResume(f) ==
    /\ \E web \in WebOutcomes : ResumeWith(f, web)
    /\ UNCHANGED <<session_histories, nObjs, nReqs, nClears, log, search, dedup>>

(* mutant: the session is removed when present, and success is true also
   when the id is absent *)
clear_chat_session_always_true(session_id) ==
    /\ nClears < MaxClears
    /\ nClears' = nClears + 1
    /\ session_histories' = [session_histories EXCEPT ![session_id] = NoObj]
    /\ clear_result' = [n |-> nClears + 1, session_id |-> session_id, success |-> TRUE]
    /\ result' = NoResult
    /\ UNCHANGED <<heap, nObjs, nReqs, waiting, log, search, dedup>>

(* POST /chat/clear/{session_id}, main.py:183-195 *)
clear_chat_session(session_id) ==
    /\ nClears < MaxClears
    /\ nClears' = nClears + 1
    /\ IF session_histories[session_id] # NoObj
       THEN /\ session_histories' = [session_histories EXCEPT ![session_id] = NoObj]
            /\ clear_result' = [n |-> nClears + 1, session_id |-> session_id,
                                success |-> TRUE]
       ELSE /\ UNCHANGED session_histories
            /\ clear_result' = [n |-> nClears + 1, session_id |-> session_id,
                                success |-> FALSE]
    /\ result' = NoResult
    /\ UNCHANGED <<heap, nObjs, nReqs, waiting, log, search, dedup>>

Next ==
    \/ \E given \in RequestSessionIds, chat_mode \in ChatModes :
           ChatConstructorFails(given, chat_mode)
    \/ \E given \in RequestSessionIds, chat_mode \in ChatModes : Chat(given, chat_mode)
    \/ \E f \in waiting : ChatResume(f)
    \/ \E session_id \in SessionIds : clear_chat_session(session_id)

Spec == Init /\ [][Next]_vars

---------------------------------------------------------------------------
(* One LLMChat object on its own: the turns handed to _update_history,
   directly or by generate_response, against the history it keeps. *)

Turn(role, content) == [role |-> role, content |-> content]
MaxTurns == 2 * HistoryWindow + MaxExtra
TheChat == session_histories["default"]

InitHistory ==
    /\ nObjs = 1
    /\ session_histories = [s \in SessionIds |-> IF s = "default" THEN nObjs ELSE NoObj]
    /\ heap = [o \in ObjIds |-> LLMChat(HistoryWindow)]
    /\ nReqs = 0
    /\ waiting = {}
    /\ result = NoResult
    /\ clear_result = NoClear
    /\ nClears = 0
    /\ log = <<>>
    /\ search = NoSearch
    /\ dedup = NoDedup

(* self._update_history(role, content) *)
UpdateHistory(role) ==
    LET content == <<Tok("turn", "", "", "", Len(log) + 1)>>
    IN  /\ Len(log) < MaxTurns
        /\ heap' = [heap EXCEPT ![TheChat] = update_history(@, role, content)]
        /\ log' = Append(log, Turn(role, content))
        /\ UNCHANGED <<session_histories, nObjs, nReqs, waiting, result, clear_result, nClears,
                       search, dedup>>

(* self.generate_response(message, context, "rag") *)
GenerateResponse(outcome) ==
    LET n == Len(log) + 1
        g == generate_response(heap[TheChat], n, "rag", outcome)
    IN  /\ Len(log) + 2 <= MaxTurns
        /\ heap' = [heap EXCEPT ![TheChat] = g.self]
        /\ log' = IF outcome = "raise" THEN log
                  ELSE log \o <<Turn("user", UserText(n)), Turn("assistant", g.text)>>
        /\ UNCHANGED <<session_histories, nObjs, nReqs, waiting, result, clear_result, nClears,
                       search, dedup>>

NextHistory ==
    \/ \E role \in {"user", "assistant"} : UpdateHistory(role)
    \/ \E outcome \in EngineOutcomes("rag") : GenerateResponse(outcome)

SpecHistory == InitHistory /\ [][NextHistory]_vars

(* One LLMChat object used as the program uses it: _update_history is called
   by generate_response only (llm_chat.py:149-150), for any of the modes. *)
Generate(chat_mode, outcome) ==
    LET n == Len(log) + 1
        g == generate_response(heap[TheChat], n, chat_mode, outcome)
    IN  /\ Len(log) + 2 <= MaxTurns
        /\ heap' = [heap EXCEPT ![TheChat] = g.self]
        /\ log' = IF outcome = "raise" THEN log
                  ELSE log \o <<Turn("user", UserText(n)), Turn("assistant", g.text)>>
        /\ UNCHANGED <<session_histories, nObjs, nReqs, waiting, result, clear_result, nClears,
                       search, dedup>>

NextGenerate ==
    \E chat_mode \in ValidModes : \E outcome \in EngineOutcomes(chat_mode) :
       Generate(chat_mode, outcome)

SpecGenerate == InitHistory /\ [][NextGenerate]_vars

---------------------------------------------------------------------------
(* One call of combined_web_search: the call and its two tasks, each a
   process that runs from one await to the next. *)

chatVars == <<session_histories, heap, nObjs, nReqs, waiting, result, clear_result, nClears, log>>

InitSearch ==
    /\ session_histories = [s \in SessionIds |-> NoObj]
    /\ heap = [o \in ObjIds |-> LLMChat(HistoryWindow)]
    /\ nObjs = 0
    /\ nReqs = 0
    /\ waiting = {}
    /\ result = NoResult
    /\ clear_result = NoClear
    /\ nClears = 0
    /\ log = <<>>
    /\ search = NoSearch
    /\ dedup = NoDedup

(* lines 258-261 : the two tasks are created and the call waits in gather *)
CombinedWebSearch ==
    /\ search.pc = "idle"
    /\ search' = [search EXCEPT !.pc = "gathering",
                                !.wikipedia_task.pc = "created",
                                !.wikipedia_task.created = @ + 1,
                                !.duckduckgo_task.pc = "created",
                                !.duckduckgo_task.created = @ + 1]
    /\ UNCHANGED <<chatVars, dedup>>

(* a task settles: what it hands to gather, and its place in the order *)
Settle(s, task, handed) ==
    IF task = "wikipedia"
    THEN [s EXCEPT !.wikipedia_task.pc = "done", !.wikipedia_task.settled = handed,
                   !.order = Append(@, task)]
    ELSE [s EXCEPT !.duckduckgo_task.pc = "done", !.duckduckgo_task.settled = handed,
                   !.order = Append(@, task)]

(* search_wikipedia, lines 52-60 and 76-81 : to the return of
   wikipedia.search in the executor, which may never come *)
WikipediaSearched(outcome) ==
    /\ search.wikipedia_task.pc = "created"
    /\ LET called == [search EXCEPT !.wikipedia_task.search = outcome,
                                    !.wikipedia_task.searches = @ + 1]
       IN  search' =
              CASE outcome = "titles" -> [called EXCEPT !.wikipedia_task.pc = "paging"]
                [] outcome = "blocks" -> [called EXCEPT !.wikipedia_task.pc = "blocked"]
                [] OTHER -> Settle(called, "wikipedia", Returns(<<>>))
    /\ UNCHANGED <<chatVars, dedup>>

(* search_wikipedia, lines 58-81 : from the return of wikipedia.page in the
   executor *)
WikipediaPaged(outcome, k) ==
    /\ search.wikipedia_task.pc = "paging"
    /\ search' = Settle([search EXCEPT !.wikipedia_task.page = outcome,
                                       !.wikipedia_task.pages = @ + 1,
                                       !.wikipedia_task.options = Options(k)],
                        "wikipedia", Returns(WikipediaReturn(outcome, Options(k))))
    /\ UNCHANGED <<chatVars, dedup>>

(* search_duckduckgo, lines 223-225 : the except branch calls
   self.fallback_manual_search, which WebSearchManager does not define; the
   AttributeError leaves the coroutine *)
DuckduckgoFailed(s) == Settle(s, "duckduckgo", Raises)

(* search_duckduckgo, lines 200-203 and 219-225 : the news sub-query, to the
   await of the fetch of its top hit, or to the return when it has none *)
NewsSearched(s, news) ==
    LET called == [s EXCEPT !.duckduckgo_task.news = news,
                            !.duckduckgo_task.newses = @ + 1]
    IN  IF news.raise THEN DuckduckgoFailed(called)
        ELSE IF news.hits # <<>>
        THEN [called EXCEPT !.duckduckgo_task.pc = "fetching_news"]
        ELSE Settle(called, "duckduckgo", Returns(called.duckduckgo_task.results))

(* the news outcomes drawn: those of the call when it is made *)
NewsDrawn(text) == IF text.raise THEN {NoOutcome} ELSE NewsOutcomes

(* the outcomes drawn for the fetch of a sub-query's top hit *)
FetchDrawn(hits) == IF hits = <<>> THEN {} ELSE FetchOutcomes(GetHref(hits[1]))

(* search_duckduckgo, lines 178-184 : the text sub-query, to the await of
   the fetch of its top hit; without text hits, on to the news sub-query *)
DuckduckgoSearched(text, news) ==
    /\ search.duckduckgo_task.pc = "created"
    /\ LET called == [search EXCEPT !.duckduckgo_task.text = text,
                                    !.duckduckgo_task.texts = @ + 1]
       IN  search' =
              IF text.raise THEN DuckduckgoFailed(called)
              ELSE IF text.hits # <<>>
              THEN [called EXCEPT !.duckduckgo_task.pc = "fetching_text"]
              ELSE NewsSearched(called, news)
    /\ UNCHANGED <<chatVars, dedup>>

(* search_duckduckgo, lines 184-203 : from the return of the fetch of the
   top text hit *)
TextFetched(outcome, news) ==
    /\ search.duckduckgo_task.pc = "fetching_text"
    /\ LET text_results == search.duckduckgo_task.text.hits
           detailed_content == fetch_webpage_content(GetHref(text_results[1]), outcome)
       IN  search' =
              NewsSearched([search EXCEPT
                               !.duckduckgo_task.text_fetch = outcome,
                               !.duckduckgo_task.fetches = @ + 1,
                               !.duckduckgo_task.results =
                                   TextResults(text_results, detailed_content)],
                           news)
    /\ UNCHANGED <<chatVars, dedup>>

(* search_duckduckgo, lines 203-221 : from the return of the fetch of the
   top news hit *)
NewsFetched(outcome) ==
    /\ search.duckduckgo_task.pc = "fetching_news"
    /\ LET news_results == search.duckduckgo_task.news.hits
           detailed_content == fetch_webpage_content(GetHref(news_results[1]), outcome)
           results == search.duckduckgo_task.results
                      \o NewsResults(news_results, detailed_content)
       IN  search' =
              Settle([search EXCEPT !.duckduckgo_task.news_fetch = outcome,
                                    !.duckduckgo_task.fetches = @ + 1,
                                    !.duckduckgo_task.results = results],
                     "duckduckgo", Returns(results))
    /\ UNCHANGED <<chatVars, dedup>>

(* lines 261-274 : gather returns when both tasks have settled *)
Gather ==
    /\ search.pc = "gathering"
    /\ search.wikipedia_task.pc = "done"
    /\ search.duckduckgo_task.pc = "done"
    /\ search' = [search EXCEPT
                     !.pc = "returned",
                     !.output = CombinedResults(search.wikipedia_task.settled,
                                                search.duckduckgo_task.settled)]
    /\ UNCHANGED <<chatVars, dedup>>

NextSearch ==
    \/ CombinedWebSearch
    \/ \E outcome \in WikiSearchOutcomes : WikipediaSearched(outcome)
    \/ \E outcome \in WikiPageOutcomes :
          \E k \in (IF outcome = "disambiguation" THEN OptionCounts ELSE {0}) :
             WikipediaPaged(outcome, k)
    \/ \E text \in TextOutcomes : \E news \in NewsDrawn(text) :
          DuckduckgoSearched(text, news)
    \/ \E news \in NewsOutcomes :
          \E outcome \in FetchDrawn(search.duckduckgo_task.text.hits) :
             TextFetched(outcome, news)
    \/ \E outcome \in FetchDrawn(search.duckduckgo_task.news.hits) :
          NewsFetched(outcome)
    \/ Gather

SpecSearch == InitSearch /\ [][NextSearch]_vars

(* The event loop runs every task that can run, and the executor and the
   network deliver every outcome but "blocks". *)
SpecSearchFair == SpecSearch /\ WF_vars(NextSearch)

---------------------------------------------------------------------------
(* _deduplicate_results on the lists of at most MaxResults results; a result
   may lack the url key. *)

MaxResults == 4
DedupUrls == {"", "a", "b"}
DedupScores == {70, 90}
DedupResults ==
    {Result("t", <<>>, url, "duckduckgo_web", score) : url \in DedupUrls, score \in DedupScores}
    \cup {[title |-> "t", content |-> <<>>, source |-> "duckduckgo_web", score |-> score] :
             score \in DedupScores}
DedupInputs == UNION {[1..k -> DedupResults] : k \in 0..MaxResults}

InitDedupe ==
    /\ session_histories = [s \in SessionIds |-> NoObj]
    /\ heap = [o \in ObjIds |-> LLMChat(HistoryWindow)]
    /\ nObjs = 0
    /\ nReqs = 0
    /\ waiting = {}
    /\ result = NoResult
    /\ clear_result = NoClear
    /\ nClears = 0
    /\ log = <<>>
    /\ search = NoSearch
    /\ \E results \in DedupInputs : dedup = [NoDedup EXCEPT !.pc = "input", !.results = results]

(* unique_results = self._deduplicate_results(all_results) *)
Deduplicate ==
    /\ dedup.pc = "input"
    /\ dedup' = [dedup EXCEPT !.pc = "once",
                              !.unique_results = deduplicate_results(dedup.results)]
    /\ UNCHANGED <<chatVars, search>>

(* self._deduplicate_results(unique_results) *)
DeduplicateAgain ==
    /\ dedup.pc = "once"
    /\ dedup' = [dedup EXCEPT !.pc = "twice",
                              !.again = deduplicate_results(dedup.unique_results)]
    /\ UNCHANGED <<chatVars, search>>

NextDedupe == Deduplicate \/ DeduplicateAgain

SpecDedupe == InitDedupe /\ [][NextDedupe]_vars

---------------------------------------------------------------------------
(* Properties.  A /chat/ response is read in the state that follows the step
   returning it: result.body is what the caller receives, result.req what
   the request did. *)

Answered == result.status = 200
HasRelevantHit(hits) == \E i \in 1..Len(hits) : hits[i].score > 30
RanStage(f, stage) == \E i \in 1..Len(f.trace) : f.trace[i] = stage
StageAfter(f, first, second) ==
    \E i \in 1..(Len(f.trace) - 1) : f.trace[i] = first /\ f.trace[i + 1] = second

(* C1: when the RAG stage runs (and no exception leaves it), the response
   has mode_used = rag exactly when the vector index, asked for at most 3
   hits, returned a hit with score > 0.3; otherwise (no hit, or every score
   <= 0.3, 0.30 included) fallback_used is true and the WEB stage runs
   next. *)
C1_RagThreshold ==
    (Answered /\ RanStage(result.req, "rag") /\ result.req.raisedIn # "rag") =>
        /\ Len(result.req.hits) <= 3
        /\ (result.body.mode_used = "rag") <=> HasRelevantHit(result.req.hits)
        /\ ~HasRelevantHit(result.req.hits) =>
              result.body.fallback_used /\ StageAfter(result.req, "rag", "web")

(* C1 witness: a single hit of score exactly 0.30 fell back to the WEB stage *)
C1_Witness ==
    /\ Answered
    /\ result.req.hits = <<Hit(30)>>
    /\ result.body.fallback_used
    /\ StageAfter(result.req, "rag", "web")
    /\ result.body.mode_used # "rag"

(* C2: when the WEB stage runs, the response has mode_used = web if the
   aggregator returned a non-empty list and nothing raised in the stage; if
   the list was empty or an exception was raised in the stage, fallback_used
   is true, the DEEP stage runs next, and the WEB stage is not what makes
   the request end in error. *)
C2_WebStage ==
    (Answered /\ RanStage(result.req, "web")) =>
        /\ (result.req.webCount > 0 /\ ~result.req.caughtInWeb) =>
              result.body.mode_used = "web"
        /\ (result.req.webCount = 0 \/ result.req.caughtInWeb) =>
              /\ result.body.fallback_used
              /\ StageAfter(result.req, "web", "deep")
              /\ result.req.raisedIn # "web"
              /\ result.body.mode_used = "error" => result.req.raisedIn = "deep"

(* C2 witness: an exception raised in the WEB stage, answered by DEEP *)
C2_Witness ==
    /\ Answered
    /\ result.req.caughtInWeb
    /\ result.body.fallback_used
    /\ result.body.mode_used = "deep"

NoException(f) == f.raisedIn = "" /\ ~f.caughtInWeb

(* C3: a request with mode rag whose hits hold no score above 0.3 is always
   answered with fallback_used = true and original_mode = rag, and, when no
   exception is raised, with mode_used = web if the aggregator returned a
   result and mode_used = deep if it returned none. *)
C3_CascadeDeterminism ==
    (/\ Answered
     /\ result.req.original_mode = "rag"
     /\ result.req.vsCalls = 1 /\ result.req.raisedIn # "rag"
     /\ ~HasRelevantHit(result.req.hits)) =>
        /\ result.body.fallback_used
        /\ result.body.original_mode = "rag"
        /\ result.req.aggCalls = 1
        /\ NoException(result.req) =>
              /\ result.req.webCount > 0 => result.body.mode_used = "web"
              /\ result.req.webCount = 0 => result.body.mode_used = "deep"

(* C3 witness: rag requested, low hits, nothing from the web, answered by DEEP *)
C3_Witness ==
    /\ Answered
    /\ result.req.original_mode = "rag"
    /\ result.req.hits = <<Hit(10), Hit(30), Hit(10)>>
    /\ result.req.webCount = 0 /\ NoException(result.req)
    /\ result.body.mode_used = "deep"
    /\ result.body.fallback_used

(* C4: in every response, sources is non-empty only under mode_used = rag,
   web_context only under web, reasoning only under deep; the hits of a RAG
   stage that fell back are not returned. *)
C4_ModeFields ==
    Answered =>
        /\ result.body.sources # <<>> => result.body.mode_used = "rag"
        /\ result.body.web_context # <<>> => result.body.mode_used = "web"
        /\ result.body.reasoning # <<>> => result.body.mode_used = "deep"

(* C4 witness: the RAG stage gathered hits and fell back; none is returned *)
C4_Witness ==
    /\ Answered
    /\ result.req.hits # <<>>
    /\ result.body.fallback_used
    /\ result.body.mode_used \in {"web", "deep"}
    /\ result.body.sources = <<>>

(* the frames of the requests that are in flight or were just answered *)
Frames == waiting \cup (IF Answered THEN {result.req} ELSE {})

(* C5: a request whose chat_mode is none of rag, web, deep is not rejected
   and not made an error because of its mode: it enters the cascade at the
   RAG stage, as a rag request does (the vector index is called first), and
   a response with mode_used = error comes only from an exception of a
   stage. *)
C5_InvalidModeIsRag ==
    /\ \A f \in Frames :
          f.original_mode \notin {"rag", "web", "deep"} =>
              /\ f.chat_mode = "rag"
              /\ f.trace # <<>> /\ f.trace[1] = "rag"
              /\ f.vsCalls = 1
    /\ (Answered /\ result.req.original_mode \notin {"rag", "web", "deep"}) =>
          /\ result.body.mode_used \in {"rag", "web", "deep", "error"}
          /\ result.body.mode_used = "error" => result.req.raisedIn # ""

(* C5 witness: an invalid mode answered from the knowledge base *)
C5_Witness ==
    /\ Answered
    /\ result.req.original_mode = "bogus"
    /\ result.body.mode_used = "rag"
    /\ result.body.response = <<Tok("answer", "rag", "", "", result.req.n)>>

LastStage(f) == f.trace[Len(f.trace)]
IsApology(text) ==
    Len(text) >= 1 /\ text[1].t = "I apologize, but I encountered an issue"

(* C6: an exception that a stage handler does not handle (one that leaves
   the RAG or the DEEP stage; the WEB stage handles every exception raised
   in it, see C2) ends the request with the error outcome: HTTP 200,
   mode_used = error, the apology as the response text; the stage it left is
   the last stage run, no stage is run twice, and no collaborator is called
   again. *)
C6_UnhandledException ==
    (result.status # 0 /\ result.req.raisedIn # "") =>
        /\ result.status = 200
        /\ result.body.mode_used = "error"
        /\ IsApology(result.body.response)
        /\ result.req.raisedIn \in {"rag", "deep"}
        /\ LastStage(result.req) = result.req.raisedIn
        /\ \A i, j \in 1..Len(result.req.trace) :
              result.req.trace[i] = result.req.trace[j] => i = j
        /\ result.req.vsCalls <= 1 /\ result.req.aggCalls <= 1

(* C6 witness: an exception left the DEEP stage reached by two fallbacks *)
C6_Witness ==
    /\ Answered
    /\ result.req.raisedIn = "deep"
    /\ result.req.trace = <<"rag", "web", "deep">>
    /\ result.body.mode_used = "error"

IsNote(tok) ==
    tok.t \in {"Note: I couldn't find ..., so I'm providing a general analysis",
               "Note: I used ... mode instead of ... because"}
ReasonOf(original_mode) == IF original_mode = "web" THEN "web results" ELSE "knowledge base"

(* C7: when the DEEP stage answers after a fallback, the response text
   begins with a disclosure note that names the original mode and gives the
   reason of that mode (knowledge base for rag, web results for web); when
   deep was requested, the text holds no disclosure note and fallback_used
   is false. *)
C7_DeepDisclosurePrefix ==
    (Answered /\ result.body.mode_used = "deep") =>
        IF result.req.original_mode = "deep"
        THEN /\ ~result.body.fallback_used
             /\ \A i \in 1..Len(result.body.response) : ~IsNote(result.body.response[i])
        ELSE /\ result.body.fallback_used
             /\ IsNote(result.body.response[1])
             /\ result.body.response[1].b = Upper(result.req.original_mode)
             /\ result.body.response[1].c = ReasonOf(result.req.original_mode)

(* the last k elements of s, all of s when it has fewer *)
Newest(s, k) ==
    LET m == IF Len(s) < k THEN Len(s) ELSE k
    IN  [i \in 1..m |-> s[Len(s) - m + i]]

(* C8: after any sequence of appends the history holds at most
   2 * history_window turns, and they are the most recent turns appended, in
   the order of their appending: once more than 2 * window turns were
   appended, exactly 2 * window are left and the oldest are the ones gone. *)
C8_HistoryWindow ==
    /\ Len(heap[TheChat].history) <= 2 * heap[TheChat].history_window
    /\ heap[TheChat].history = Newest(log, 2 * heap[TheChat].history_window)
    /\ Len(log) > 2 * heap[TheChat].history_window =>
          Len(heap[TheChat].history) = 2 * heap[TheChat].history_window

(* C8 witness: 2 * window + 2 turns were appended; the two oldest are gone *)
C8_Witness ==
    /\ Len(log) = 2 * 5 + 2
    /\ Len(heap[TheChat].history) = 2 * 5
    /\ heap[TheChat].history[1] = log[3]
    /\ heap[TheChat].history[2 * 5] = log[2 * 5 + 2]

(* the turns a request's successful generation appends *)
TurnsOf(f) == <<Turn("user", UserText(f.n)), Turn("assistant", f.genText)>>

(* C9: the step in which a /chat/ request is answered appends to the
   request's session object exactly one user turn followed by one assistant
   turn when its generation call returned a text, whatever stages fell
   through before, and nothing when the engine failed; the assistant turn is
   the text generated by the last stage run; a request that is suspended
   before the WEB stage has appended nothing. *)
C9_OnePairPerRequest ==
    [][/\ (result'.status = 200 /\ result'.req.genReturns > 0) =>
             /\ result'.req.genReturns = 1
             /\ heap'[result'.req.llm_chat].history =
                   Newest((IF result'.req.created /\ nReqs' # nReqs THEN <<>>
                           ELSE heap[result'.req.llm_chat].history)
                          \o TurnsOf(result'.req),
                          2 * heap'[result'.req.llm_chat].history_window)
             /\ result'.req.genText[Len(result'.req.genText)] =
                   Tok("answer", LastStage(result'.req), "", "", result'.req.n)
       /\ (result'.status = 200 /\ result'.req.genReturns = 0) =>
             \A o \in ObjIds : o <= nObjs => heap'[o] = heap[o]
       /\ \A f \in waiting' \ waiting :
             f.genCalls = 0 /\ heap'[f.llm_chat].history =
                (IF f.created THEN <<>> ELSE heap[f.llm_chat].history)
       /\ \A o \in ObjIds :
             (result'.status # 200 \/ o # result'.req.llm_chat) /\ o <= nObjs
                => heap'[o] = heap[o]
      ]_vars

(* C9 witness: both fallbacks were traversed and the session holds one pair,
   the user turn of the request and the text of the DEEP stage *)
C9_Witness ==
    /\ Answered
    /\ result.req.trace = <<"rag", "web", "deep">>
    /\ result.req.genReturns = 1
    /\ heap[result.req.llm_chat].history =
          <<Turn("user", UserText(result.req.n)),
            Turn("assistant", EngineText("marked_answer", "deep", result.req.n))>>

(* C10: clear(session_id) answers success = true and removes the session
   when the id is in the session map, and answers success = false and leaves
   the map as it is when the id is absent; so a clear that directly follows
   a clear of the same id answers false; and a message that arrives for an
   absent id starts from an empty history: its session object holds only the
   turns of that request. *)
C10_Clear ==
    [][/\ clear_result'.n # 0 =>
             /\ clear_result'.success = (session_histories[clear_result'.session_id] # NoObj)
             /\ session_histories' =
                   [session_histories EXCEPT ![clear_result'.session_id] = NoObj]
             /\ ~clear_result'.success => session_histories' = session_histories
             /\ (clear_result.n # 0 /\ clear_result.session_id = clear_result'.session_id)
                   => ~clear_result'.success
       /\ \A f \in Frames' :
             (nReqs' # nReqs /\ f.n = nReqs' /\ session_histories[f.session_id] = NoObj) =>
                /\ f.entryLen = 0
                /\ session_histories'[f.session_id] = f.llm_chat
                /\ \A i \in 1..Len(heap'[f.llm_chat].history) :
                      heap'[f.llm_chat].history[i].content[1].n = f.n
      ]_vars

(* C10 witness: a second request arrives for a session that held turns and
   was cleared, and its session holds only its own pair of turns *)
C10_Witness ==
    /\ Answered
    /\ result.req.n = 2 /\ result.req.created
    /\ nClears >= 1 /\ nObjs = 2
    /\ Len(heap[1].history) = 2
    /\ result.req.llm_chat = 2
    /\ Len(heap[2].history) = 2
    /\ heap[2].history[1] = Turn("user", UserText(2))

(* the frames of the requests that arrive in a step, the ids they are for,
   and the id a clear of the step is for *)
Arriving == waiting \cup (IF result.status # 0 THEN {result.req} ELSE {})
ArrivingFor(s, f) == f.session_id = s /\ f.n = nReqs
ClearedFor(s) == clear_result.n # 0 /\ clear_result.session_id = s

(* C11 as stated: after every step an id is in the session map exactly when
   a /chat/ message for it arrived in the step, or it was in the map before
   and the step was not a clear of it. *)
C11_SessionForEveryMessage ==
    [][\A s \in SessionIds :
          session_histories'[s] # NoObj <=>
             \/ nReqs' # nReqs /\ \E f \in Arriving' : ArrivingFor(s, f)'
             \/ session_histories[s] # NoObj /\ ~ClearedFor(s)'
      ]_vars

(* C11, amended: an id is in the session map exactly when a /chat/ message
   for it since its last clear got its session object constructed (a first
   message whose constructor raises is answered with HTTP 500 and creates
   nothing).  The message of a request without a session id is for
   "default"; a message for an absent id creates a new object with an empty
   history and window 5; a message for a present id uses the object that is
   there; and only a clear of the id removes it. *)
C11_SessionLifecycle ==
    [][\A s \in SessionIds :
          /\ session_histories'[s] # NoObj <=>
                \/ /\ nReqs' # nReqs
                   /\ \E f \in Arriving' : ArrivingFor(s, f)' /\ result'.status # 500
                \/ session_histories[s] # NoObj /\ ~ClearedFor(s)'
          /\ \A f \in Arriving' :
                (nReqs' # nReqs /\ ArrivingFor(s, f)' /\ result'.status # 500) =>
                   /\ s = (IF f.given = "" THEN "default" ELSE f.given)
                   /\ session_histories'[s] = f.llm_chat
                   /\ heap'[f.llm_chat].history_window = 5
                   /\ IF session_histories[s] = NoObj
                      THEN /\ f.created /\ f.entryLen = 0
                           /\ \A t \in SessionIds : session_histories[t] # f.llm_chat
                           /\ \A w \in waiting : w.llm_chat # f.llm_chat
                      ELSE /\ ~f.created
                           /\ f.llm_chat = session_histories[s]
                           /\ f.entryLen = Len(heap[f.llm_chat].history)
          /\ (session_histories[s] # NoObj /\ session_histories'[s] = NoObj) =>
                ClearedFor(s)' /\ clear_result'.success
      ]_vars

(* C11 witness: the second message without a session id was answered from
   the session object that the first one created for "default" *)
C11_Witness ==
    /\ Answered
    /\ result.req.n = 2 /\ result.req.given = "" /\ ~result.req.created
    /\ nObjs = 1
    /\ session_histories["default"] = 1 /\ result.req.llm_chat = 1
    /\ Len(heap[1].history) = 4

(* the tasks of the call, and what the call returned *)
WikipediaTask == search.wikipedia_task
DuckduckgoTask == search.duckduckgo_task
SearchReturned == search.pc = "returned"

(* C12: a provider task that raises leaves its sibling as it is and the call
   waiting; the sibling runs on to its own result, and the call then returns
   what the sibling returned, as if the failed provider had returned
   nothing. *)
C12_TaskFailureIsolated ==
    [][/\ (DuckduckgoTask'.settled.raised /\ ~DuckduckgoTask.settled.raised) =>
             /\ WikipediaTask' = WikipediaTask
             /\ search'.pc = search.pc
       /\ (SearchReturned' /\ DuckduckgoTask'.settled.raised) =>
             /\ WikipediaTask'.pc = "done" /\ ~WikipediaTask'.settled.raised
             /\ search'.output = WikipediaTask'.settled.value
             /\ WikipediaTask'.page = "page" => Len(search'.output) = 1
      ]_vars

(* C12 witness: the web-search task raised first, the encyclopedia task then
   found its page, and the call returned that page alone *)
C12_Witness ==
    /\ SearchReturned
    /\ search.order = <<"duckduckgo", "wikipedia">>
    /\ DuckduckgoTask.settled.raised
    /\ WikipediaTask.page = "page"
    /\ Len(search.output) = 1 /\ search.output[1].source = "wikipedia"

(* the results of the output that come from a provider *)
FromWikipedia(r) == r.source \in {"wikipedia", "wikipedia_disambiguation"}
FromDuckduckgo(r) == ~FromWikipedia(r)

(* C13: when one adapter blocks forever and the other has returned, the call
   returns, with the results of the adapter that returned and none of the
   blocked one. *)
C13_BlockedAdapterTimesOut ==
    (WikipediaTask.pc = "blocked" /\ DuckduckgoTask.pc = "done"
        /\ ~DuckduckgoTask.settled.raised)
    ~> (/\ SearchReturned
        /\ search.output = deduplicate_results(DuckduckgoTask.settled.value)
        /\ \A i \in 1..Len(search.output) : FromDuckduckgo(search.output[i]))

(* where a result comes from: the encyclopedia, the text sub-query or the
   news sub-query *)
IsIn(x, s) == \E i \in 1..Len(s) : s[i] = x
Rank(r) ==
    IF FromWikipedia(r) THEN 1 ELSE IF IsIn(r.title, <<"text1", "text2", "text3", "text4", "text5">>) THEN 2 ELSE 3

(* C14: the call returns only when both tasks have settled, and in what it
   returns the encyclopedia result comes first, then the text results, then
   the news results, whichever task settled first; every result of the
   output is one a task returned, and the first result a task returned is
   in it. *)
C14_GatherOrder ==
    SearchReturned =>
        /\ WikipediaTask.pc = "done" /\ DuckduckgoTask.pc = "done"
        /\ Len(search.order) = 2
        /\ \A i, j \in 1..Len(search.output) :
              i < j => Rank(search.output[i]) <= Rank(search.output[j])
        /\ \A i \in 1..Len(search.output) :
              \/ IsIn(search.output[i], WikipediaTask.settled.value)
              \/ IsIn(search.output[i], DuckduckgoTask.settled.value)
        /\ WikipediaTask.settled.value # <<>> =>
              search.output[1] = WikipediaTask.settled.value[1]
        /\ (WikipediaTask.settled.value = <<>> /\ DuckduckgoTask.settled.value # <<>>) =>
              search.output[1] = DuckduckgoTask.settled.value[1]

(* C14 witness: the web-search task settled first with text and news
   results, and the output starts with the encyclopedia page, has a text
   result next and a news result last *)
C14_Witness ==
    /\ SearchReturned
    /\ search.order = <<"duckduckgo", "wikipedia">>
    /\ Len(search.output) >= 3
    /\ Rank(search.output[1]) = 1
    /\ Rank(search.output[2]) = 2
    /\ Rank(search.output[Len(search.output)]) = 3

(* the positions of a list whose entry has no url or a url no earlier entry
   has, in order *)
FirstSeen(s, i) == GetUrl(s[i]) = "" \/ \A j \in 1..(i - 1) : GetUrl(s[j]) # GetUrl(s[i])
FirstSeenPositions(s) == SelectSeq([i \in 1..Len(s) |-> i], LAMBDA i : FirstSeen(s, i))

(* C15: the output of deduplication is the input restricted to the entries
   without a url and the first entry of every url, in input order; so every
   url is in it once, at its first occurrence whatever the scores, and its
   length is the number of distinct urls plus the number of entries without
   one. *)
C15_DedupeFirstSeen ==
    dedup.pc \in {"once", "twice"} =>
        LET kept == FirstSeenPositions(dedup.results)
        IN  /\ dedup.unique_results = [k \in 1..Len(kept) |-> dedup.results[kept[k]]]
            /\ \A i, j \in 1..Len(dedup.unique_results) :
                  (GetUrl(dedup.unique_results[i]) # ""
                     /\ GetUrl(dedup.unique_results[i]) = GetUrl(dedup.unique_results[j]))
                  => i = j
            /\ Len(dedup.unique_results) =
                  Cardinality({GetUrl(dedup.results[i]) : i \in 1..Len(dedup.results)} \ {""})
                  + Cardinality({i \in 1..Len(dedup.results) : GetUrl(dedup.results[i]) = ""})

(* C15 witness: of two entries with url "a" the first, with the lower score,
   is kept; the entry with an empty url and the entry without the url key
   are both kept *)
C15_Witness ==
    /\ dedup.pc = "once"
    /\ dedup.results =
          <<Result("t", <<>>, "a", "duckduckgo_web", 70),
            Result("t", <<>>, "", "duckduckgo_web", 70),
            [title |-> "t", content |-> <<>>, source |-> "duckduckgo_web", score |-> 70],
            Result("t", <<>>, "a", "duckduckgo_web", 90)>>
    /\ dedup.unique_results = SubSeq(dedup.results, 1, 3)

(* C16: deduplication applied to its own output returns that output. *)
C16_DedupeIdempotent ==
    dedup.pc = "twice" => dedup.again = dedup.unique_results

(* C16 witness: three entries with the same url and one without a url went
   through deduplication twice, and two entries were left both times *)
C16_Witness ==
    /\ dedup.pc = "twice"
    /\ Len(dedup.results) = 4
    /\ Cardinality({i \in 1..4 : GetUrl(dedup.results[i]) = "a"}) = 3
    /\ Cardinality({i \in 1..4 : GetUrl(dedup.results[i]) = ""}) = 1
    /\ Len(dedup.unique_results) = 2
    /\ dedup.again = dedup.unique_results

(* the candidate titles listed in the content of a disambiguation result *)
Candidates(r) == SelectSeq(r.content, LAMBDA tok : tok.t = "option")

(* C17: the encyclopedia task never hands an exception to gather; when
   wikipedia.page raises DisambiguationError it returns one result, tagged
   wikipedia_disambiguation, with score 0.7 and the first (at most 5) of
   the error's options in its content; when the title search is empty, the
   page is not found, or a call raises anything else, it returns no
   result. *)
C17_WikipediaNeverRaises ==
    /\ ~WikipediaTask.settled.raised
    /\ WikipediaTask.pc = "done" =>
          /\ WikipediaTask.page = "disambiguation" =>
                /\ Len(WikipediaTask.settled.value) = 1
                /\ WikipediaTask.settled.value[1].source = "wikipedia_disambiguation"
                /\ WikipediaTask.settled.value[1].score = 70
                /\ Len(Candidates(WikipediaTask.settled.value[1])) <= 5
                /\ Candidates(WikipediaTask.settled.value[1]) =
                      SubSeq(WikipediaTask.options, 1,
                             IF Len(WikipediaTask.options) < 5
                             THEN Len(WikipediaTask.options) ELSE 5)
          /\ (\/ WikipediaTask.search \in {"no_titles", "raise"}
              \/ WikipediaTask.page \in {"page_error", "raise"}) =>
                WikipediaTask.settled.value = <<>>
          /\ WikipediaTask.page = "page" =>
                /\ Len(WikipediaTask.settled.value) = 1
                /\ WikipediaTask.settled.value[1].source = "wikipedia"

(* C17 witness: a disambiguation with 7 options returned one result that
   lists 5 of them *)
C17_Witness ==
    /\ WikipediaTask.pc = "done"
    /\ WikipediaTask.page = "disambiguation"
    /\ Len(WikipediaTask.options) = 7
    /\ Len(WikipediaTask.settled.value) = 1
    /\ Len(Candidates(WikipediaTask.settled.value[1])) = 5

(* a fetch that failed: the except branch of line 47 or a status other
   than 200 *)
FetchFailed(outcome) == outcome \in {"status", "exception"}

(* C18: when the fetch of a sub-query's top hit fails, the content of the
   top result is the snippet of the hit, and the task does not raise for
   it. *)
C18_FetchFailureUsesSnippet ==
    /\ (DuckduckgoTask.text.hits # <<>> /\ FetchFailed(DuckduckgoTask.text_fetch)) =>
          /\ DuckduckgoTask.results[1].content = DuckduckgoTask.text.hits[1].body
          /\ DuckduckgoTask.settled.raised => DuckduckgoTask.news.raise
    /\ (DuckduckgoTask.news.hits # <<>> /\ FetchFailed(DuckduckgoTask.news_fetch)) =>
          /\ DuckduckgoTask.results[Len(DuckduckgoTask.text.hits) + 1].content =
                DuckduckgoTask.news.hits[1].body
          /\ ~DuckduckgoTask.settled.raised

(* C19: when a search call of the web-search task raises, the task
   contributes the one placeholder result, scored 0.5, with the generic
   search url; it contributes nothing only when the placeholder path itself
   failed. *)
C19_SearchFailurePlaceholder ==
    (DuckduckgoTask.pc = "done"
        /\ (DuckduckgoTask.text.raise \/ DuckduckgoTask.news.raise)) =>
       LET contributed ==
               IF DuckduckgoTask.settled.raised THEN <<>>
               ELSE DuckduckgoTask.settled.value
       IN  \/ /\ contributed = fallback_duckduckgo_search("response")
              /\ Len(contributed) = 1
              /\ contributed[1].score = 50
              /\ contributed[1].url = "u_duckduckgo_search"
           \/ /\ contributed = <<>>
              /\ DuckduckgoTask.fallback = "exception"

(* the response to a request of mode web whose combined_web_search returned
   the output, and whose generation succeeded *)
WebResponseFor(output) ==
    LET f == EnterWeb(NewFrame(1, "", "default", 1, "web", TRUE, 0))
        stage == WebStage(Cfg(f, LLMChat(5)), [raise |-> FALSE, results |-> output], "answer")
    IN  Returned(stage.f).body

(* C20: with mode web, a disambiguation result from the encyclopedia, two
   text hits and one news hit, and no url twice, the output has 4 entries:
   the disambiguation, the detailed text result, the text result, and a
   result tagged as news; and the response has mode_used = web and
   fallback_used = false. *)
C20_ScenarioFourEntries ==
    (/\ SearchReturned
     /\ WikipediaTask.page = "disambiguation"
     /\ Len(DuckduckgoTask.text.hits) = 2
     /\ Len(DuckduckgoTask.news.hits) = 1) =>
        /\ Len(search.output) = 4
        /\ [i \in 1..4 |-> search.output[i].source] =
              <<"wikipedia_disambiguation", "duckduckgo_web_detailed", "duckduckgo_web",
                "duckduckgo_news">>
        /\ [i \in 1..4 |-> search.output[i].title] =
              <<"Disambiguation: query", "text1", "text2", "news1">>
        /\ WebResponseFor(search.output).mode_used = "web"
        /\ ~WebResponseFor(search.output).fallback_used

(* the request a turn belongs to, and the histories in pairs: every odd
   turn the user turn of a request, the next one the assistant turn of the
   same request *)
RequestOf(turn) == turn.content[Len(turn.content)].n
InPairs(h) ==
    /\ Len(h) % 2 = 0
    /\ \A k \in 1..(Len(h) \div 2) :
          /\ h[2 * k - 1] = Turn("user", UserText(RequestOf(h[2 * k - 1])))
          /\ h[2 * k].role = "assistant"
          /\ RequestOf(h[2 * k]) = RequestOf(h[2 * k - 1])

(* C21: with requests of a session in flight together, every step leaves
   every history as it was or adds to one history the user turn and then
   the assistant turn of the request that the step answers; so the
   histories are made of pairs of one request each, no turn of a request is
   dropped by another request or is there twice, and the step of a request
   changes no object but the one of its own session. *)
C21_SerializedPerRequest ==
    [][/\ \A o \in ObjIds :
             \/ heap'[o].history = heap[o].history
             \/ /\ result'.status = 200
                /\ result'.req.llm_chat = o
                /\ result'.req.genReturns = 1
                /\ heap'[o].history =
                      Newest(heap[o].history \o TurnsOf(result'.req), 2 * 5)
       /\ \A o \in ObjIds : InPairs(heap'[o].history)
       /\ \A o1, o2 \in ObjIds :
             \A i \in 1..Len(heap'[o1].history), j \in 1..Len(heap'[o2].history) :
                (/\ RequestOf(heap'[o1].history[i]) = RequestOf(heap'[o2].history[j])
                 /\ heap'[o1].history[i].role = heap'[o2].history[j].role)
                => (o1 = o2 /\ i = j)
       /\ \A s \in SessionIds :
             (session_histories[s] # NoObj
                /\ (result'.status = 0 \/ result'.req.session_id # s)) =>
                heap'[session_histories[s]] = heap[session_histories[s]]
      ]_vars

(* C21 witness: the first request of a session was suspended, the second
   one of the same session was answered, and then the first: the history
   holds the pair of the second followed by the pair of the first *)
C21_Witness ==
    /\ Answered
    /\ result.req.n = 1
    /\ nObjs = 1
    /\ Len(heap[1].history) = 4
    /\ heap[1].history =
          <<Turn("user", UserText(2)), heap[1].history[2],
            Turn("user", UserText(1)), Turn("assistant", result.req.genText)>>
    /\ RequestOf(heap[1].history[2]) = 2

(* LLMChat._get_fallback_response of src/backend/local_model_llm_chat.py: a
   text for each of the modes rag, web and deep.  main.py:9 imports LLMChat
   from llm_chat, whose except branch returns GenErrorText. *)
get_fallback_response(chat_mode, n) == <<Tok("I'm having trouble", chat_mode, "", "", n)>>

(* the engine failed inside the generate_response call of the last stage:
   the call was made, no call returned an answer and no exception left the
   stage *)
EngineFailedInStage(f) == f.genCalls >= 1 /\ f.genReturns = 0 /\ f.raisedIn = ""

(* C22: when the generation engine fails inside a stage, the response holds
   the fallback text specific to the active mode, mode_used is that mode and
   not error, and the stage of the failure is the last one of the request.
   The text of the response is the same for every mode. *)
C22_EngineFailureFallbackText ==
    (Answered /\ EngineFailedInStage(result.req)) =>
       /\ result.body.mode_used = LastStage(result.req)
       /\ result.body.mode_used # "error"
       /\ \E i \in 1..Len(result.body.response) :
             result.body.response[i] =
                get_fallback_response(LastStage(result.req), result.req.n)[1]


---------------------------------------------------------------------------
(* The handler together with the aggregator.  While no call of the
   aggregator was started the handler's steps are those of Next, with the
   outcome of the await of main.py:125 drawn from WebOutcomes.  For the
   first request, when it is suspended in that await, the call of the
   aggregator runs step by step (NextSearch), and the request resumes with
   the list that the call returned. *)
(* main.py:125-178 for the request whose call of the aggregator returned *)
ChatResumeSearched(f) ==
    /\ search.pc = "returned"
    /\ ResumeWith(f, [raise |-> FALSE, results |-> search.output])
    /\ UNCHANGED <<session_histories, nObjs, nReqs, nClears, log, search, dedup>>

NextRequest ==
    \/ (search.pc = "idle" /\ Next)
    \/ (nReqs = 1 /\ nClears = 0 /\ waiting # {} /\ NextSearch)
    \/ \E f \in waiting : ChatResumeSearched(f)

SpecRequest == Init /\ [][NextRequest]_vars

(* the place of a stage in the order RAG, WEB, DEEP *)
StageRank(stage) == CASE stage = "rag" -> 1 [] stage = "web" -> 2 [] OTHER -> 3

(* every request seen: those suspended and the one just answered *)
Requests == waiting \cup (IF result.status # 0 THEN {result.req} ELSE {})

(* no stage twice and none after a later one; the vector index and the
   aggregator called at most once *)
StagesOnceInOrder(f) ==
    /\ \A i, j \in 1..Len(f.trace) :
          i < j => StageRank(f.trace[i]) < StageRank(f.trace[j])
    /\ f.vsCalls <= 1
    /\ f.aggCalls <= 1

(* inside one call of the aggregator each task is created once and calls
   each query of its provider, and each fetch of a top hit, at most once *)
ProvidersQueriedOnce ==
    /\ WikipediaTask.created <= 1
    /\ WikipediaTask.searches <= 1
    /\ WikipediaTask.pages <= 1
    /\ DuckduckgoTask.created <= 1
    /\ DuckduckgoTask.texts <= 1
    /\ DuckduckgoTask.newses <= 1
    /\ DuckduckgoTask.fetches <= DuckduckgoTask.texts + DuckduckgoTask.newses

(* C23 as stated: nothing is retried within one request; each stage at most
   once and in the order RAG, WEB, DEEP, the vector index, the aggregator
   and the generation engine each called at most once, and each provider
   queried at most once inside one call of the aggregator.  The generation
   call is made a second time by DEEP after the one of WEB raised. *)
C23_NothingCalledTwice ==
    /\ \A f \in Requests : StagesOnceInOrder(f) /\ f.genCalls <= 1
    /\ ProvidersQueriedOnce

(* C23, amended: as above, but generate_response is called at most once in
   each stage: a second time only by DEEP, after the exception of the call
   made by WEB was caught by the except branch of WEB; at most one call
   returns an answer. *)
C23_NoRetry ==
    /\ \A f \in Requests :
          /\ StagesOnceInOrder(f)
          /\ f.genCalls <= Len(f.trace)
          /\ f.genReturns <= 1
          /\ f.genCalls > 1 =>
                /\ f.genCalls = 2
                /\ f.caughtInWeb
                /\ f.webCount > 0
                /\ f.trace = <<"web", "deep">> \/ f.trace = <<"rag", "web", "deep">>
    /\ ProvidersQueriedOnce

(* C23 witness: a request went through the three stages; its call of the
   aggregator queried both providers and fetched both top hits, the
   generation call of WEB raised and DEEP made the call again *)
C23_Witness ==
    /\ Answered
    /\ result.req.trace = <<"rag", "web", "deep">>
    /\ result.req.vsCalls = 1 /\ result.req.aggCalls = 1
    /\ result.req.genCalls = 2 /\ result.req.genReturns = 1
    /\ SearchReturned
    /\ WikipediaTask.searches = 1 /\ WikipediaTask.pages = 1
    /\ DuckduckgoTask.texts = 1 /\ DuckduckgoTask.newses = 1
    /\ DuckduckgoTask.fetches = 2


(* C24: the first stage a request runs is the one of its mode, and no stage
   before it runs: a web request never calls the vector index; a deep
   request calls neither the vector index nor the aggregator, runs no stage
   but DEEP and is answered with mode_used deep or error. *)
C24_StartsAtRequestedMode ==
    /\ \A f \in Requests :
          /\ f.trace # <<>> => f.trace[1] = f.chat_mode
          /\ f.chat_mode = "web" => (f.vsCalls = 0 /\ ~RanStage(f, "rag"))
          /\ f.chat_mode = "deep" =>
                /\ f.vsCalls = 0 /\ f.aggCalls = 0
                /\ \A i \in 1..Len(f.trace) : f.trace[i] = "deep"
    /\ (Answered /\ result.req.chat_mode = "deep") =>
          result.body.mode_used \in {"deep", "error"}

(* C24 witness: a deep request was answered by the DEEP stage, which called
   the engine *)
C24_Witness ==
    /\ Answered
    /\ result.req.chat_mode = "deep"
    /\ result.req.trace = <<"deep">>
    /\ result.req.genCalls = 1
    /\ result.body.mode_used = "deep"


(* the results whose content is the text of a fetched page *)
FetchedPages(results) ==
    {i \in 1..Len(results) :
        /\ results[i].source = "duckduckgo_web_detailed"
        /\ results[i].content # <<>>
        /\ results[i].content[1].t = "paragraphs"}

(* C25: the content that the fetch of a top hit's page returns is never
   longer than 2000 characters, whatever the length of the page's text.  A
   longer text is cut to 2000 characters and "..." is added to it. *)
C25_FetchedContentCapped ==
    \A i \in FetchedPages(DuckduckgoTask.results) :
       DuckduckgoTask.results[i].content[1].n <= 2000


(* C26: the original_mode of every response is one of rag, web and deep; a
   request with an invalid chat_mode is coerced to rag and reports rag.
   The handler takes original_mode from the request before it coerces. *)
C26_OriginalModeCoerced ==
    Answered =>
       /\ result.body.original_mode \in {"rag", "web", "deep"}
       /\ result.req.chat_mode \in {"rag", "web", "deep"}
       /\ (result.req.original_mode \notin {"rag", "web", "deep"}) =>
             result.body.original_mode = "rag"


(* C27: in every response whose mode_used is rag, web or deep, fallback_used
   is true exactly when mode_used is not the mode the cascade started in,
   which is the requested mode after coercion; with mode_used rag,
   fallback_used is false. *)
C27_FallbackUsedIffModeChanged ==
    (Answered /\ result.body.mode_used \in {"rag", "web", "deep"}) =>
       /\ result.body.fallback_used <=> (result.body.mode_used # result.req.chat_mode)
       /\ result.body.mode_used = "rag" => ~result.body.fallback_used

(* C27 witness: a request with an invalid mode, coerced to rag, was answered
   by DEEP after WEB found nothing, with fallback_used true *)
C27_Witness ==
    /\ Answered
    /\ result.req.original_mode = "bogus"
    /\ result.req.chat_mode = "rag"
    /\ result.req.trace = <<"rag", "web", "deep">>
    /\ result.req.webCount = 0
    /\ result.body.mode_used = "deep"
    /\ result.body.fallback_used


(* C28: between generation calls the history of a session has even length
   and alternates user, assistant, starting with a user turn, also after
   turns were evicted at the cap of twice the window: each generation
   appends a user turn and then an assistant turn, and the cap is even. *)
C28_HistoryAlternates ==
    LET h == heap[TheChat].history
    IN  /\ Len(h) % 2 = 0
        /\ \A i \in 1..Len(h) :
              h[i].role = IF i % 2 = 1 THEN "user" ELSE "assistant"

(* C28 witness: six generations returned an answer, so the first pair of
   turns was evicted, and the history starts with the second user turn *)
C28_Witness ==
    /\ Len(log) = 12
    /\ Len(heap[TheChat].history) = 10
    /\ heap[TheChat].history[1] = log[3]
    /\ log[3].role = "user"


(* the object a request holds is no longer the one of its session: the
   session was cleared after the request arrived *)
Detached(f) == session_histories[f.session_id] # f.llm_chat

(* the turns of request n in a history *)
HoldsTurnOf(h, n) == \E i \in 1..Len(h) : RequestOf(h[i]) = n

(* C29: a request whose session was cleared while it was suspended in the
   await of the web search is still answered, with HTTP 200; its user and
   assistant turns are the last ones of the detached object, and the session
   map has no entry for its id that holds them.  A message that finds no
   entry for its id starts from an empty history: its object holds no turn
   of an earlier request. *)
C29_ClearWhileSuspended ==
    /\ (result.status # 0 /\ Detached(result.req) /\ result.req.llm_chat # NoObj) =>
          LET f == result.req
              h == heap[f.llm_chat].history
          IN  /\ Answered
              /\ RanStage(f, "web")
              /\ f.genReturns = 1 =>
                    (Len(h) >= 2 /\ SubSeq(h, Len(h) - 1, Len(h)) = TurnsOf(f))
              /\ f.genReturns = 0 => ~HoldsTurnOf(h, f.n)
              /\ session_histories[f.session_id] # NoObj =>
                    ~HoldsTurnOf(heap[session_histories[f.session_id]].history, f.n)
    /\ \A f \in Requests :
          f.created =>
             /\ f.entryLen = 0
             /\ \A i \in 1..Len(heap[f.llm_chat].history) :
                   RequestOf(heap[f.llm_chat].history[i]) >= f.n

(* C29 witness: the first request was suspended, its session was cleared,
   and the request was then answered by WEB: its two turns are in the
   object it holds and its id is not in the session map *)
C29_Witness ==
    /\ Answered
    /\ result.req.n = 1
    /\ nClears = 1
    /\ session_histories[result.req.session_id] = NoObj
    /\ result.body.mode_used = "web"
    /\ heap[result.req.llm_chat].history = TurnsOf(result.req)


(* C30: a response with mode_used error is the error message and nothing
   else; the note about the mode used is in a response only when mode_used
   is web or deep, also when fallback_used was true before the exception.
   The handler appends the note whenever fallback_used is true and
   mode_used is not the original mode, which is so for error. *)
C30_ErrorResponseOnlyMessage ==
    Answered =>
       /\ result.body.mode_used = "error" =>
             result.body.response = ApologyText(result.req.raisedIn)
       /\ (\E i \in 1..Len(result.body.response) :
              result.body.response[i] =
                 FallbackMessage(result.body.mode_used, result.body.original_mode)) =>
             result.body.mode_used \in {"web", "deep"}

====
